---- MODULE Spec2Model ----
(***************************************************************************)
(* Model of prompts/generate_tokens.py: the command-line entry point main  *)
(* and the text generator generate_text.                                   *)
(*                                                                         *)
(* A Python string is modelled by a record [len, pieces]: len is its       *)
(* number of characters (code points, as len() counts them) and pieces is  *)
(* the sequence of the pieces it was concatenated from, in order (kind and,*)
(* for a section heading, its number).  A slice keeps the pieces and       *)
(* shortens len, so the last pieces of a sliced text may be cut short.     *)
(* Which pool entry random.choice returned is kept only as its length.     *)
(* The command-line argument is a sequence of one-character strings, so    *)
(* int() is computed from the characters.                                  *)
(***************************************************************************)
EXTENDS Integers, Sequences, FiniteSets

\* ---------------------------------------------------------------- bounds

\* Longest command-line argument explored, in characters.
MaxArgLen == 3

\* Largest |target_tokens| explored (arguments of larger value are left out).
MaxTokens == 333

\* Characters a command-line argument is built from: digits, both signs, a
\* blank and a letter.  (ParseInt also handles the underscores int() accepts
\* between digits; the arguments explored have none.)
ArgChars == {"0", "1", "3", "5", "-", "+", " ", "a"}

\* ------------------------------------------------------------- utilities

Min(a, b) == IF a <= b THEN a ELSE b

Max(a, b) == IF a >= b THEN a ELSE b

Abs(n) == IF n >= 0 THEN n ELSE 0 - n

\* ----------------------------------------------------------------- texts

Piece(kind, num) == [kind |-> kind, num |-> num]

Text(kind, n) == [len |-> n, pieces |-> <<Piece(kind, 0)>>]

EmptyText == [len |-> 0, pieces |-> <<>>]

\* s + t
Concat(s, t) == [len |-> s.len + t.len, pieces |-> s.pieces \o t.pieces]

\* Variant: a negative bound is taken as 0 instead of counting from the end.
SliceLenClamped(L, n) == Min(L, Max(n, 0))

\* len(s[:n]) for a string of length L: a negative n counts from the end.
SliceLen(L, n) == IF n >= 0 THEN Min(L, n) ELSE Max(L + n, 0)

\* s[:n]
Slice(s, n) == [len |-> SliceLen(s.len, n), pieces |-> s.pieces]

\* len(str(n)) for n >= 0
RECURSIVE DecLen(_)
DecLen(n) == IF n < 10 THEN 1 ELSE 1 + DecLen(n \div 10)

\* ----------------------------------------------------------------- pools

\* The paragraph pool: the lengths of the ten paragraphs, in pool order.
paragraphs == << Text("paragraph", 346), Text("paragraph", 324),
                 Text("paragraph", 259), Text("paragraph", 211),
                 Text("paragraph", 219), Text("paragraph", 185),
                 Text("paragraph", 183), Text("paragraph", 209),
                 Text("paragraph", 180), Text("paragraph", 170) >>

\* The code-snippet pool: the lengths of the three fenced blocks.
code_examples == << Text("code", 121), Text("code", 93), Text("code", 65) >>

\* random.choice(pool): any entry of the pool.
Choices(pool) == {pool[k] : k \in 1..Len(pool)}

\* " "
Space == Text("space", 1)

\* "\n\n"
BlankLine == Text("blank", 2)

\* "# Technical Documentation\n\n"
Header == Text("header", 27)

\* f"\n## Section {section_num}\n\n"
SectionHeading(n) == [len |-> 14 + DecLen(n), pieces |-> <<Piece("heading", n)>>]

\* -------------------------------------------------------------- int(str)

DigitChars == {"0", "1", "2", "3", "4", "5", "6", "7", "8", "9"}

DigitVal(c) == CASE c = "0" -> 0 [] c = "1" -> 1 [] c = "2" -> 2 [] c = "3" -> 3
                 [] c = "4" -> 4 [] c = "5" -> 5 [] c = "6" -> 6 [] c = "7" -> 7
                 [] c = "8" -> 8 [] c = "9" -> 9

WhiteSpace == {" "}

RECURSIVE LStrip(_)
LStrip(s) == IF s # <<>> /\ Head(s) \in WhiteSpace THEN LStrip(Tail(s)) ELSE s

RECURSIVE RStrip(_)
RStrip(s) == IF s # <<>> /\ s[Len(s)] \in WhiteSpace
             THEN RStrip(SubSeq(s, 1, Len(s) - 1)) ELSE s

\* The digits of s, underscores dropped.
RECURSIVE DropUnderscores(_)
DropUnderscores(s) == IF s = <<>> THEN <<>>
                      ELSE IF Head(s) = "_" THEN DropUnderscores(Tail(s))
                      ELSE <<Head(s)>> \o DropUnderscores(Tail(s))

RECURSIVE DecValue(_)
DecValue(s) == IF s = <<>> THEN 0
               ELSE 10 * DecValue(SubSeq(s, 1, Len(s) - 1)) + DigitVal(s[Len(s)])

\* A decimal literal: digits, with single underscores between digits allowed.
IsDecimal(s) == /\ s # <<>>
                /\ \A k \in 1..Len(s) : s[k] \in DigitChars \cup {"_"}
                /\ s[1] \in DigitChars
                /\ s[Len(s)] \in DigitChars
                /\ \A k \in 1..(Len(s) - 1) : ~(s[k] = "_" /\ s[k + 1] = "_")

\* int(s): surrounding whitespace is stripped, then an optional sign, then a
\* decimal literal.  ok = FALSE stands for ValueError.
ParseInt(s) ==
    LET t    == RStrip(LStrip(s))
        sgn  == t # <<>> /\ Head(t) \in {"+", "-"}
        body == IF sgn THEN Tail(t) ELSE t
        v    == DecValue(DropUnderscores(body))
    IN IF IsDecimal(body)
       THEN [ok |-> TRUE, val |-> IF sgn /\ Head(t) = "-" THEN 0 - v ELSE v]
       ELSE [ok |-> FALSE, val |-> 0]

\* ------------------------------------------------------------ invocations

StringsUpTo(n) == UNION {[1..k -> ArgChars] : k \in 0..n}

\* The arguments explored: every string that int() rejects, and every string
\* whose value is within MaxTokens.
ArgStrings == {s \in StringsUpTo(MaxArgLen) :
                 ParseInt(s).ok => Abs(ParseInt(s).val) <= MaxTokens}

\* sys.argv[0]
ProgName == <<"g">>

\* sys.argv: the program name alone, or followed by one argument.
Argvs == {<<ProgName>>} \cup {<<ProgName, s>> : s \in ArgStrings}

\* ------------------------------------------------------------------ state

VARIABLES
    argv,              \* sys.argv
    pc,                \* position in main / generate_text
    target_tokens,     \* main: target_tokens = int(sys.argv[1]); the parameter
    target_chars,      \* generate_text: target_chars
    output,            \* generate_text: output (the accumulator)
    section_num,       \* generate_text: section_num
    i,                 \* generate_text: the for loop's i
    calls,             \* number of calls of generate_text made
    main_output,       \* main: output (the value generate_text returned)
    char_count,        \* main: char_count
    estimated_tokens,  \* main: estimated_tokens
    stdout,            \* what was printed to sys.stdout, one entry per print
    stderr,            \* what was printed to sys.stderr, one entry per print
    exit_code          \* the process's exit status, once pc = "exit"

vars == <<argv, pc, target_tokens, target_chars, output, section_num, i, calls,
          main_output, char_count, estimated_tokens, stdout, stderr, exit_code>>

gen_vars == <<target_chars, output, section_num, i>>

main_vars == <<main_output, char_count, estimated_tokens, stdout, stderr, exit_code>>

\* One line printed to stderr.
Message(kind, arg, t, est, chars) ==
    [kind |-> kind, arg |-> arg, target |-> t, estimated |-> est, chars |-> chars]

\* Variant: print(x, end="").
PrintedNoNewline(x) == x

\* print(x): x followed by a newline.
Printed(x) == Concat(x, Text("newline", 1))

Init ==
    /\ argv \in Argvs
    /\ pc = "main"
    /\ target_tokens = 0
    /\ target_chars = 0
    /\ output = EmptyText
    /\ section_num = 0
    /\ i = 0
    /\ calls = 0
    /\ main_output = EmptyText
    /\ char_count = 0
    /\ estimated_tokens = 0
    /\ stdout = <<>>
    /\ stderr = <<>>
    /\ exit_code = 0

\* ------------------------------------------------------------------- main

\* len(sys.argv) < 2: usage and example on stderr, sys.exit(1).
MainUsage ==
    /\ pc = "main"
    /\ Len(argv) < 2
    /\ stderr' = stderr \o << Message("usage", <<>>, 0, 0, 0),
                              Message("example", <<>>, 0, 0, 0) >>
    /\ exit_code' = 1
    /\ pc' = "exit"
    /\ UNCHANGED <<argv, target_tokens, gen_vars, calls, main_output,
                   char_count, estimated_tokens, stdout>>

\* Variant: the except branch reports the error but lacks sys.exit(1), and main
\* goes on with target_tokens = 0.
MainBadNumberNoExit ==
    /\ pc = "main"
    /\ Len(argv) >= 2
    /\ ~ParseInt(argv[2]).ok
    /\ stderr' = Append(stderr, Message("error", argv[2], 0, 0, 0))
    /\ target_tokens' = 0
    /\ calls' = calls + 1
    /\ pc' = "generate_text"
    /\ UNCHANGED <<argv, gen_vars, main_output, char_count, estimated_tokens,
                   stdout, exit_code>>

\* int(sys.argv[1]) raises ValueError: error on stderr, sys.exit(1).
MainBadNumber ==
    /\ pc = "main"
    /\ Len(argv) >= 2
    /\ ~ParseInt(argv[2]).ok
    /\ stderr' = Append(stderr, Message("error", argv[2], 0, 0, 0))
    /\ exit_code' = 1
    /\ pc' = "exit"
    /\ UNCHANGED <<argv, target_tokens, gen_vars, calls, main_output,
                   char_count, estimated_tokens, stdout>>

\* target_tokens = int(sys.argv[1]) succeeds; generate_text is called.
MainParse ==
    /\ pc = "main"
    /\ Len(argv) >= 2
    /\ ParseInt(argv[2]).ok
    /\ target_tokens' = ParseInt(argv[2]).val
    /\ calls' = calls + 1
    /\ pc' = "generate_text"
    /\ UNCHANGED <<argv, gen_vars, main_vars>>

\* ---------------------------------------------------------- generate_text

\* target_chars = target_tokens * 4; the small path starts from one paragraph.
EnterSmall ==
    /\ pc = "generate_text"
    /\ target_tokens <= 100
    /\ target_chars' = target_tokens * 4
    /\ \E p \in Choices(paragraphs) : output' = p
    /\ pc' = "small_loop"
    /\ UNCHANGED <<argv, target_tokens, section_num, i, calls, main_vars>>

\* Variant: output = " " + random.choice(paragraphs), the accumulator replaced.
SmallAppendReplaces ==
    /\ pc = "small_loop"
    /\ output.len < target_chars
    /\ \E p \in Choices(paragraphs) : output' = Concat(Space, p)
    /\ UNCHANGED <<argv, pc, target_tokens, target_chars, section_num, i, calls,
                   main_vars>>

\* while len(output) < target_chars: output += " " + random.choice(paragraphs)
SmallAppend ==
    /\ pc = "small_loop"
    /\ output.len < target_chars
    /\ \E p \in Choices(paragraphs) : output' = Concat(output, Concat(Space, p))
    /\ UNCHANGED <<argv, pc, target_tokens, target_chars, section_num, i, calls,
                   main_vars>>

\* Variant: return output, the slice forgotten.
SmallReturnUntruncated ==
    /\ pc = "small_loop"
    /\ ~(output.len < target_chars)
    /\ main_output' = output
    /\ pc' = "returned"
    /\ UNCHANGED <<argv, target_tokens, gen_vars, calls, char_count,
                   estimated_tokens, stdout, stderr, exit_code>>

\* return output[:target_chars]
SmallReturn ==
    /\ pc = "small_loop"
    /\ ~(output.len < target_chars)
    /\ main_output' = Slice(output, target_chars)
    /\ pc' = "returned"
    /\ UNCHANGED <<argv, target_tokens, gen_vars, calls, char_count,
                   estimated_tokens, stdout, stderr, exit_code>>

\* target_chars = target_tokens * 4; the large path starts from the header.
EnterLarge ==
    /\ pc = "generate_text"
    /\ ~(target_tokens <= 100)
    /\ target_chars' = target_tokens * 4
    /\ output' = Header
    /\ section_num' = 1
    /\ pc' = "large_loop"
    /\ UNCHANGED <<argv, target_tokens, i, calls, main_vars>>

\* Variant: while len(output) <= target_chars.
SectionStartInclusive ==
    /\ pc = "large_loop"
    /\ output.len <= target_chars
    /\ output' = Concat(output, SectionHeading(section_num))
    /\ i' = 0
    /\ pc' = "for"
    /\ UNCHANGED <<argv, target_tokens, target_chars, section_num, calls, main_vars>>

\* while len(output) < target_chars: the section heading; the for loop starts.
SectionStart ==
    /\ pc = "large_loop"
    /\ output.len < target_chars
    /\ output' = Concat(output, SectionHeading(section_num))
    /\ i' = 0
    /\ pc' = "for"
    /\ UNCHANGED <<argv, target_tokens, target_chars, section_num, calls, main_vars>>

\* for i in range(5): output += random.choice(paragraphs) + "\n\n"
ForParagraph ==
    /\ pc = "for"
    /\ i < 5
    /\ \E p \in Choices(paragraphs) : output' = Concat(output, Concat(p, BlankLine))
    /\ pc' = "if"
    /\ UNCHANGED <<argv, target_tokens, target_chars, section_num, i, calls,
                   main_vars>>

\* Variant: if i % 2 == 0, the length not looked at.
ForCodeNoLengthCheck ==
    /\ pc = "if"
    /\ IF i % 2 = 0
       THEN \E c \in Choices(code_examples) :
               output' = Concat(output, Concat(c, BlankLine))
       ELSE output' = output
    /\ i' = i + 1
    /\ pc' = "for"
    /\ UNCHANGED <<argv, target_tokens, target_chars, section_num, calls,
                   main_vars>>

\* if i % 2 == 0 and len(output) < target_chars:
\*     output += random.choice(code_examples) + "\n\n"
\* and the for loop moves to the next i.
ForCode ==
    /\ pc = "if"
    /\ IF i % 2 = 0 /\ output.len < target_chars
       THEN \E c \in Choices(code_examples) :
               output' = Concat(output, Concat(c, BlankLine))
       ELSE output' = output
    /\ i' = i + 1
    /\ pc' = "for"
    /\ UNCHANGED <<argv, target_tokens, target_chars, section_num, calls,
                   main_vars>>

\* Variant: section_num is never incremented.
SectionEndNoIncrement ==
    /\ pc = "for"
    /\ ~(i < 5)
    /\ section_num' = section_num
    /\ pc' = "large_loop"
    /\ UNCHANGED <<argv, target_tokens, target_chars, output, i, calls, main_vars>>

\* The for loop is exhausted: section_num += 1, back to the while condition.
SectionEnd ==
    /\ pc = "for"
    /\ ~(i < 5)
    /\ section_num' = section_num + 1
    /\ pc' = "large_loop"
    /\ UNCHANGED <<argv, target_tokens, target_chars, output, i, calls, main_vars>>

\* Variant: return output[:target_chars] on the large path too.
LargeReturnTruncated ==
    /\ pc = "large_loop"
    /\ ~(output.len < target_chars)
    /\ main_output' = Slice(output, target_chars)
    /\ pc' = "returned"
    /\ UNCHANGED <<argv, target_tokens, gen_vars, calls, char_count,
                   estimated_tokens, stdout, stderr, exit_code>>

\* return output
LargeReturn ==
    /\ pc = "large_loop"
    /\ ~(output.len < target_chars)
    /\ main_output' = output
    /\ pc' = "returned"
    /\ UNCHANGED <<argv, target_tokens, gen_vars, calls, char_count,
                   estimated_tokens, stdout, stderr, exit_code>>

\* ------------------------------------------------------- main, continued

\* print(output)
MainPrintOutput ==
    /\ pc = "returned"
    /\ stdout' = Append(stdout, Printed(main_output))
    /\ pc' = "printed"
    /\ UNCHANGED <<argv, target_tokens, gen_vars, calls, main_output,
                   char_count, estimated_tokens, stderr, exit_code>>

\* Variant: the estimate rounds up, (char_count + 3) // 4.
MainSummaryRoundsUp ==
    /\ pc = "printed"
    /\ char_count' = main_output.len
    /\ estimated_tokens' = (main_output.len + 3) \div 4
    /\ stderr' = Append(stderr, Message("summary", <<>>, target_tokens,
                                        (main_output.len + 3) \div 4, main_output.len))
    /\ exit_code' = 0
    /\ pc' = "exit"
    /\ UNCHANGED <<argv, target_tokens, gen_vars, calls, main_output, stdout>>

\* char_count, estimated_tokens, the summary on stderr; main returns.
MainSummary ==
    /\ pc = "printed"
    /\ char_count' = main_output.len
    /\ estimated_tokens' = main_output.len \div 4
    /\ stderr' = Append(stderr, Message("summary", <<>>, target_tokens,
                                        main_output.len \div 4, main_output.len))
    /\ exit_code' = 0
    /\ pc' = "exit"
    /\ UNCHANGED <<argv, target_tokens, gen_vars, calls, main_output, stdout>>

Next ==
    \/ MainUsage
    \/ MainBadNumber
    \/ MainParse
    \/ EnterSmall
    \/ SmallAppend
    \/ SmallReturn
    \/ EnterLarge
    \/ SectionStart
    \/ ForParagraph
    \/ ForCode
    \/ SectionEnd
    \/ LargeReturn
    \/ MainPrintOutput
    \/ MainSummary

Spec == Init /\ [][Next]_vars

\* The program is sequential and runs without suspension: a step that can be
\* taken is taken.
FairSpec == Spec /\ WF_vars(Next)

\* --------------------------------------------------------------- properties

\* generate_text has returned to main.
Returned == pc \in {"returned", "printed"} \/ (pc = "exit" /\ calls > 0)

\* The number of characters written to stdout.
RECURSIVE TotalLen(_)
TotalLen(texts) == IF texts = <<>> THEN 0 ELSE Head(texts).len + TotalLen(Tail(texts))

\* The positions of the pieces of one kind in a text.
Positions(s, kind) == {k \in 1..Len(s.pieces) : s.pieces[k].kind = kind}

\* The section headings of a text, in the order they were emitted.
Headings(s) == SelectSeq(s.pieces, LAMBDA q : q.kind = "heading")

\* The positions of the pieces of the section whose heading is at position h.
SectionBody(s, h) ==
    {k \in (h + 1)..Len(s.pieces) :
        \A m \in (h + 1)..k : s.pieces[m].kind # "heading"}

\* The longest paragraph of the pool.
MaxParagraphLen ==
    CHOOSE m \in {q.len : q \in Choices(paragraphs)} :
        \A q \in Choices(paragraphs) : q.len <= m

\* C1: for 0 < target_tokens <= 100, whatever paragraphs were chosen,
\* generate_text returns a string of exactly target_tokens * 4 characters.
C1_SmallExactLength ==
    (Returned /\ 0 < target_tokens /\ target_tokens <= 100)
        => main_output.len = target_tokens * 4

\* C1's case: a target of 100 whose accumulator grew past 400 characters by
\* appending and was cut back to 400.
C1_Witness ==
    /\ Returned
    /\ target_tokens = 100
    /\ Len(output.pieces) > 1
    /\ output.len > 400
    /\ main_output.len = 400

\* C2: for target_tokens > 100 generate_text returns the accumulated string
\* untruncated, and its length is at least target_tokens * 4.
C2_LargeUntruncated ==
    (Returned /\ target_tokens > 100)
        => /\ main_output = output
           /\ main_output.len >= target_tokens * 4

\* C2's case: a large target whose output overshoots target_chars.
C2_Witness ==
    /\ Returned
    /\ target_tokens > 100
    /\ main_output.len > target_tokens * 4

\* C3: for target_tokens > 100 the output begins with the header and then has
\* at least one section heading; the headings, in emission order, are numbered
\* 1, 2, ..., k.
C3_HeaderAndHeadings ==
    (Returned /\ target_tokens > 100)
        => /\ main_output.pieces # <<>>
           /\ Head(main_output.pieces).kind = "header"
           /\ main_output.len >= Header.len
           /\ Positions(main_output, "header") = {1}
           /\ Len(Headings(main_output)) >= 1
           /\ main_output.pieces[2].kind = "heading"
           /\ \A j \in 1..Len(Headings(main_output)) :
                 Headings(main_output)[j].num = j

\* C3's case: an output of two sections.
C3_Witness ==
    /\ Returned
    /\ target_tokens > 100
    /\ Len(Headings(main_output)) = 2

\* The invocation has no positional argument, or one that int() rejects.
BadInvocation == Len(argv) < 2 \/ ~ParseInt(argv[2]).ok

\* C4: main exits with code 1 exactly when no argument is supplied or the
\* argument is no integer; then a message is on stderr, generate_text is never
\* called and nothing is written to stdout.  Every other invocation exits 0.
C4_ExitCodes ==
    /\ BadInvocation => (calls = 0 /\ stdout = <<>>)
    /\ pc = "exit" =>
         /\ exit_code \in {0, 1}
         /\ exit_code = 1 <=> BadInvocation
         /\ exit_code = 1 => stderr # <<>>
         /\ (Len(argv) < 2 /\ exit_code = 1) => stderr[1].kind = "usage"
         /\ (Len(argv) >= 2 /\ exit_code = 1) =>
               (stderr[1].kind = "error" /\ stderr[1].arg = argv[2])

\* C4's case: the argument "a" was rejected with exit code 1.
C4_Witness ==
    /\ pc = "exit"
    /\ exit_code = 1
    /\ Len(argv) = 2
    /\ argv[2] = <<"a">>
    /\ Len(stderr) = 1

\* C5 as stated: after a successful run with a target in (0, 100], what was
\* written to stdout is exactly target_tokens * 4 characters long.
C5_Original ==
    (pc = "exit" /\ exit_code = 0 /\ 0 < target_tokens /\ target_tokens <= 100)
        => TotalLen(stdout) = target_tokens * 4

\* C5, amended: after a successful run with a target in (0, 100], stdout holds
\* the generated text of target_tokens * 4 characters followed by the newline
\* print adds: target_tokens * 4 + 1 characters.
C5_StdoutLength ==
    (pc = "exit" /\ exit_code = 0 /\ 0 < target_tokens /\ target_tokens <= 100)
        => /\ TotalLen(stdout) = target_tokens * 4 + 1
           /\ Len(stdout) = 1
           /\ stdout[1].pieces = Append(main_output.pieces, Piece("newline", 0))

\* C5's case: the argument "50" gave 201 characters on stdout.
C5_Witness ==
    /\ pc = "exit"
    /\ exit_code = 0
    /\ argv[2] = <<"5", "0">>
    /\ target_tokens = 50
    /\ TotalLen(stdout) = 201

\* C6: on a successful run the summary is written to stderr after the text is
\* on stdout; it reports char_count = the length of the generated output and
\* estimated_tokens = floor(char_count / 4), so the reported count equals the
\* target for a target in (0, 100] and is at least the target above 100.
C6_Summary ==
    /\ (stderr # <<>> /\ stderr[Len(stderr)].kind = "summary")
          => (stdout # <<>> /\ TotalLen(stdout) > main_output.len)
    /\ (pc = "exit" /\ exit_code = 0) =>
         LET m == stderr[Len(stderr)]
         IN /\ Len(stderr) = 1
            /\ m.kind = "summary"
            /\ m.target = target_tokens
            /\ m.chars = main_output.len
            /\ m.chars = char_count
            /\ m.estimated = estimated_tokens
            /\ 4 * m.estimated <= m.chars
            /\ m.chars < 4 * m.estimated + 4
            /\ (0 < target_tokens /\ target_tokens <= 100) => m.estimated = target_tokens
            /\ target_tokens > 100 => m.estimated >= target_tokens

\* C6's case: a large target whose output length is no multiple of 4, so the
\* estimate is rounded down.
C6_Witness ==
    /\ pc = "exit"
    /\ exit_code = 0
    /\ target_tokens > 100
    /\ char_count % 4 = 3
    /\ estimated_tokens > target_tokens

\* One pass of an accumulation loop: of the small path's while, of the large
\* path's while (the heading), of the for loop (the paragraph).
LoopPass ==
    \/ pc = "small_loop" /\ pc' = "small_loop"
    \/ pc = "large_loop" /\ pc' = "for"
    \/ pc = "for" /\ pc' = "if"

\* C7: for every target_tokens, positive, zero or negative, generate_text
\* terminates and returns: every pass of either loop strictly increases the
\* accumulated length (and nothing ever shortens it), so the loop guard
\* eventually fails.
C7_Terminates ==
    /\ (pc = "generate_text") ~> Returned
    /\ [][LoopPass => output'.len > output.len]_vars
    /\ [][output'.len >= output.len]_vars

\* C7's case: a call that returned after two passes of the large path's while
\* loop, ten of its for loop.
C7_Witness ==
    /\ Returned
    /\ target_tokens > 100
    /\ section_num = 3

\* C8 as stated: for target_tokens <= 0 generate_text returns one complete pool
\* paragraph with nothing appended, or the bare header.
C8_Original ==
    (Returned /\ target_tokens <= 0)
        => \/ main_output \in Choices(paragraphs)
           \/ main_output = Header

\* C8, amended: for target_tokens <= 0 the loop does not run, so the
\* accumulator is one pool paragraph with nothing appended; what is returned is
\* that paragraph sliced by [:target_chars]: empty for 0, and for a negative
\* target the paragraph without its last -target_chars characters (empty when
\* it is no longer than that).  It is never the complete paragraph and never
\* the header.
C8_MinimalOutput ==
    (Returned /\ target_tokens <= 0)
        => /\ output \in Choices(paragraphs)
           /\ main_output.pieces = output.pieces
           /\ target_tokens = 0 => main_output.len = 0
           /\ (target_tokens < 0 /\ output.len + target_chars >= 0)
                 => main_output.len = output.len + target_chars
           /\ (target_tokens < 0 /\ output.len + target_chars < 0)
                 => main_output.len = 0
           /\ main_output.len < output.len
           /\ Positions(main_output, "header") = {}

\* C8's case: a target of -1 returned the paragraph less its last 4 characters.
C8_Witness ==
    /\ Returned
    /\ target_tokens = 0 - 1
    /\ main_output.len = output.len - 4
    /\ main_output.len > 0

\* A section of the text, its heading at position h: the heading is followed
\* by a paragraph, the section has exactly 5 paragraphs and at most 3 code
\* examples, and each code example directly follows the paragraph (and its
\* blank line) of an even iteration.
WellFormedSection(s, h) ==
    LET body  == SectionBody(s, h)
        paras == {k \in body : s.pieces[k].kind = "paragraph"}
        codes == {k \in body : s.pieces[k].kind = "code"}
    IN /\ Cardinality(paras) = 5
       /\ Cardinality(codes) <= 3
       /\ h + 1 \in paras
       /\ \A k \in paras : s.pieces[k + 1].kind = "blank"
       /\ \A k \in codes :
             /\ s.pieces[k - 1].kind = "blank"
             /\ s.pieces[k - 2].kind = "paragraph"
             /\ s.pieces[k + 1].kind = "blank"
             /\ Cardinality({m \in paras : m < k}) \in {1, 3, 5}

\* C9: on the large path every emitted section, the last included, is its
\* heading followed by exactly 5 paragraphs; a code example is appended after
\* the paragraph of iteration i only when i is even and the accumulated length
\* after that paragraph is below target_chars, so a section has at most 3 and
\* none is appended once the length has reached target_chars.
C9_Sections ==
    /\ [][Cardinality(Positions(output', "code")) # Cardinality(Positions(output, "code"))
            => /\ pc = "if"
               /\ i % 2 = 0
               /\ output.len < target_chars
               /\ Cardinality(Positions(output', "code"))
                     = Cardinality(Positions(output, "code")) + 1]_vars
    /\ []((Returned /\ target_tokens > 100)
            => \A h \in Positions(main_output, "heading") :
                  WellFormedSection(main_output, h))

\* C9's case: a returned output of two sections whose last section got fewer
\* than 3 code examples, the length having reached target_chars inside it.
C9_Witness ==
    /\ Returned
    /\ target_tokens > 100
    /\ Len(Headings(main_output)) = 2
    /\ \E h \in Positions(main_output, "heading") :
          /\ main_output.pieces[h].num = 2
          /\ Cardinality({k \in SectionBody(main_output, h) :
                             main_output.pieces[k].kind = "code"}) = 1

\* C10: on the large path a section is started only at the top of the while
\* loop and only while the accumulated length is below target_chars, so the
\* output without its final section is shorter than target_chars and the
\* sections are as few as reach it; the overshoot beyond target_chars is less
\* than a heading plus 5 paragraphs, and the return happens only at the top.
C10_StopAtTop ==
    /\ [][Len(Headings(output')) # Len(Headings(output))
            => /\ pc = "large_loop"
               /\ output.len < target_chars
               /\ section_num = Len(Headings(output)) + 1]_vars
    /\ [][(~Returned /\ Returned') => pc \in {"small_loop", "large_loop"}]_vars
    /\ []((Returned /\ target_tokens > 100)
            => /\ Len(Headings(main_output)) = section_num - 1
               /\ section_num >= 2
               /\ main_output.len - target_chars
                     < SectionHeading(section_num - 1).len
                          + 5 * (MaxParagraphLen + BlankLine.len))

\* C10's case: a second section was started below target_chars and the output
\* of two sections overshoots target_chars by 1700 characters or more, close
\* to the bound.
C10_Witness ==
    /\ Returned
    /\ target_tokens > 100
    /\ section_num = 3
    /\ main_output.len - target_chars >= 1700

====
